---- MODULE Spec2Model ----
(***************************************************************************)
(* Model of emscripten's src/library_addfunction.js: the dynamic function  *)
(* table manager (addFunction / removeFunction), its slot allocator, its   *)
(* registry (functionsInTableMap), and the helpers that synthesize a wasm  *)
(* trampoline for a JS function (uleb128Encode, sigToWasmTypes,            *)
(* convertJsFunctionToWasm).                                               *)
(***************************************************************************)
EXTENDS Integers, Sequences, FiniteSets, TLC

VARIABLES
  ASSERTIONS,             \* build setting: 0, 1 or 2 (#if ASSERTIONS, #if ASSERTIONS >= 2)
  MEMORY64,               \* build setting: the address-width tag 'p' is i64
  WASM2JS,                \* build setting: convertJsFunctionToWasm returns func itself
  hasWebAssemblyFunction, \* host: typeof WebAssembly.Function == "function"
  wasmTable,              \* the table's entries, index i held at position i + 1
  tableMaximum,           \* the table's capacity ceiling: grow fails beyond it
  freeTableIndexes,       \* $freeTableIndexes
  functionsInTableMap,    \* $functionsInTableMap: [created, map]
  handles,                \* caller's view: callable -> slot register returned, not unregistered since
  preexisting,            \* caller's view: callable -> "held" if the table held it when the
                          \* program started, "unregistered" once the caller has
                          \* unregistered it, both recorded under SpecPreexisting only,
                          \* "absent" if the table did not hold it
  released,               \* caller's view: slots unregistered and not returned since, oldest
                          \* first (recorded under SpecReleasing only)
  last,                   \* the last addFunction/removeFunction call: arguments, outcome, state before
  call                    \* a call of one of the pure helpers: arguments and outcome

vars == <<ASSERTIONS, MEMORY64, WASM2JS, hasWebAssemblyFunction, wasmTable,
          tableMaximum, freeTableIndexes, functionsInTableMap, handles,
          preexisting, released, last, call>>

buildVars == <<ASSERTIONS, MEMORY64, WASM2JS, hasWebAssemblyFunction>>

tableVars == <<wasmTable, tableMaximum, freeTableIndexes, functionsInTableMap, handles,
               preexisting, released, last>>

(***************************************************************************)
(* Bounds of the model.                                                    *)
(***************************************************************************)
MaxTable == 2        \* largest capacity ceiling a table starts with
MaxInitLen == 2      \* largest length a table starts with
MaxFree == 2         \* removeFunction is not called with this many free indexes
MaxSigLen == 3       \* longest signature given to the pure helpers
MaxOver == 2         \* how far past the uleb128 limit the encoder's inputs go
MaxTargetLen == 1    \* longest byte sequence already in the encoder's target

(***************************************************************************)
(* Outcomes of a call: a returned value or a thrown error.                 *)
(***************************************************************************)
Ok(v) == [err |-> "none", val |-> v]

Err(e) == [err |-> e]

IsOk(r) == r.err = "none"

\* The value JS gives for a missing argument, a missing property or an index
\* past the end: as a signature, as a character, as a type name.
Undefined == <<"undefined">>

UndefinedChar == "undefined"

UndefinedType == "undefined"

\* An array element that is undefined (typeCodes[c] for an unknown c).
UndefinedByte == -1

(***************************************************************************)
(* uleb128Encode                                                           *)
(***************************************************************************)
RECURSIVE BitOr(_, _)
BitOr(a, b) ==
  IF a = 0 THEN b
  ELSE IF b = 0 THEN a
  ELSE (IF a % 2 = 1 \/ b % 2 = 1 THEN 1 ELSE 0) + 2 * BitOr(a \div 2, b \div 2)

\* n >> 7 on a non-negative 32-bit integer
ShiftRight7(n) == n \div 128

ULEB_LIMIT == 16384

\* An encoder that forgets the continuation bit.
uleb128TwoBytesNoFlag(n) == <<n % 128, ShiftRight7(n)>>

\* What the second branch pushes when n >= 128: the low group with bit 7
\* set, then the rest.
uleb128TwoBytes(n) == <<BitOr(n % 128, 128), ShiftRight7(n)>>

uleb128Encode(n, target) ==
  IF ASSERTIONS > 0 /\ ~(n < ULEB_LIMIT) THEN Err("AssertionError")
  ELSE IF n < 128 THEN Ok(Append(target, n))
  ELSE Ok(target \o uleb128TwoBytes(n))

(***************************************************************************)
(* sigToWasmTypes                                                          *)
(***************************************************************************)
\* s.slice(start, end) of a JS string or array, for 0 <= start
Slice(s, start, end) ==
  LET stop == IF end < Len(s) THEN end ELSE Len(s)
  IN [k \in 1..(stop - start) |-> s[start + k]]

\* sig[i] of a JS string, i counted from 0
CharAt(sig, i) == IF i >= 0 /\ i < Len(sig) THEN sig[i + 1] ELSE UndefinedChar

typeNamesKeys == {"i", "j", "f", "d", "p"}

typeNames(c) ==
  CASE c = "i" -> "i32"
    [] c = "j" -> "i64"
    [] c = "f" -> "f32"
    [] c = "d" -> "f64"
    [] c = "p" -> IF MEMORY64 THEN "i64" ELSE "i32"
    [] OTHER -> UndefinedType

\* A translator that forgets the void sentinel.
sigResultsNoVoid(sig) == <<typeNames(CharAt(sig, 0))>>

sigResults(sig) ==
  IF CharAt(sig, 0) = "v" THEN <<>> ELSE <<typeNames(CharAt(sig, 0))>>

\* The loop of sigToWasmTypes from index i on, parameters collected so far.
RECURSIVE sigParametersFrom(_, _, _)
sigParametersFrom(sig, i, parameters) ==
  IF ~(i < Len(sig)) THEN Ok(parameters)
  ELSE IF ASSERTIONS > 0 /\ CharAt(sig, i) \notin typeNamesKeys
    THEN Err("invalid signature char")
  ELSE sigParametersFrom(sig, i + 1, Append(parameters, typeNames(CharAt(sig, i))))

sigToWasmTypes(sig) ==
  IF sig = Undefined THEN Err("TypeError")    \* sig[0] of undefined
  ELSE LET results == sigResults(sig)
           params == sigParametersFrom(sig, 1, <<>>)
       IN IF IsOk(params)
            THEN Ok([parameters |-> params.val, results |-> results])
            ELSE params

(***************************************************************************)
(* convertJsFunctionToWasm                                                 *)
(***************************************************************************)
\* Callables and table entries. A wasm function is one the table accepts; a
\* js function is one table.set rejects with a TypeError; a wrapper is what
\* the host builds around a js function (WebAssembly.Function, or the export
\* of the synthesized module), with the wasm type it was given.
WasmFunc(n) == [kind |-> "wasm", id |-> n]

JsFunc(n) == [kind |-> "js", id |-> n]

Wrapper(func, type) == [kind |-> "wrapper", id |-> func.id, type |-> type]

Null == [kind |-> "null"]

ValueTypes == {"i32", "i64", "f32", "f64"}

RECURSIVE SeqRange(_)
SeqRange(s) == IF s = <<>> THEN {} ELSE {Head(s)} \cup SeqRange(Tail(s))

\* new WebAssembly.Function(type, func): the host rejects a type that names
\* anything but the four value types.
NewWebAssemblyFunction(type, func) ==
  IF SeqRange(type.parameters) \cup SeqRange(type.results) \subseteq ValueTypes
    THEN Ok(Wrapper(func, type))
    ELSE Err("TypeError")

typeCodesKeys == {"i", "p", "j", "f", "d"}

\* A code table whose 'p' is 32 bits wide in every build.
typeCodesNarrowP(c) ==
  CASE c \in {"i", "p"} -> 127
    [] c = "j" -> 126
    [] c = "f" -> 125
    [] c = "d" -> 124
    [] OTHER -> UndefinedByte

typeCodes(c) ==
  CASE c = "i" -> 127
    [] c = "p" -> IF MEMORY64 THEN 126 ELSE 127
    [] c = "j" -> 126
    [] c = "f" -> 125
    [] c = "d" -> 124
    [] OTHER -> UndefinedByte

\* typeCodes[s] for a string s of any length (sig.slice(0, 1) may be empty)
typeCodesOf(s) == IF Len(s) = 1 THEN typeCodes(s[1]) ELSE UndefinedByte

\* The parameter loop of the fallback path from index i on.
RECURSIVE pushParamCodes(_, _, _)
pushParamCodes(sigParam, i, body) ==
  IF ~(i < Len(sigParam)) THEN Ok(body)
  ELSE IF ASSERTIONS > 0 /\ CharAt(sigParam, i) \notin typeCodesKeys
    THEN Err("invalid signature char")
  ELSE pushParamCodes(sigParam, i + 1, Append(body, typeCodes(CharAt(sigParam, i))))

\* A return type written as one result whatever the tag.
pushReturnCodesAlwaysOne(sigRet, body) == body \o <<1, typeCodesOf(sigRet)>>

pushReturnCodes(sigRet, body) ==
  IF sigRet = <<"v">> THEN Append(body, 0)
  ELSE body \o <<1, typeCodesOf(sigRet)>>

\* typeSectionBody as built for sig (a string).
typeSectionBodyOf(sig) ==
  LET sigRet == Slice(sig, 0, 1)
      sigParam == Slice(sig, 1, Len(sig))
      counted == uleb128Encode(Len(sigParam), <<1, 96>>)
  IN IF ~IsOk(counted) THEN counted
     ELSE LET coded == pushParamCodes(sigParam, 0, counted.val)
          IN IF ~IsOk(coded) THEN coded
             ELSE Ok(pushReturnCodes(sigRet, coded.val))

moduleHeader == <<0, 97, 115, 109, 1, 0, 0, 0, 1>>

moduleTrailer == <<2, 7, 1, 1, 101, 1, 102, 0, 0, 7, 5, 1, 1, 102, 0, 0>>

\* The bytes array handed to new Uint8Array.
moduleBytesOf(sig) ==
  LET body == typeSectionBodyOf(sig)
  IN IF ~IsOk(body) THEN body
     ELSE LET prefixed == uleb128Encode(Len(body.val), moduleHeader)
          IN IF ~IsOk(prefixed) THEN prefixed
             ELSE Ok(prefixed.val \o body.val \o moduleTrailer)

\* new Uint8Array(bytes): undefined becomes 0, numbers wrap to 8 bits.
ToUint8(b) == IF b = UndefinedByte THEN 0 ELSE b % 256

Uint8Array(bytes) == [k \in 1..Len(bytes) |-> ToUint8(bytes[k])]

\* Reading an unsigned LEB128 number at position pos (from 1) of bytes:
\* [ok, val, next].
RECURSIVE DecodeUleb(_, _)
DecodeUleb(bytes, pos) ==
  IF pos > Len(bytes) THEN [ok |-> FALSE, val |-> 0, next |-> pos]
  ELSE IF bytes[pos] < 128 THEN [ok |-> TRUE, val |-> bytes[pos], next |-> pos + 1]
  ELSE LET rest == DecodeUleb(bytes, pos + 1)
       IN [ok |-> rest.ok, val |-> (bytes[pos] - 128) + 128 * rest.val, next |-> rest.next]

ValueTypeCodes == {127, 126, 125, 124}

typeOfCode(b) ==
  CASE b = 127 -> "i32"
    [] b = 126 -> "i64"
    [] b = 125 -> "f32"
    [] b = 124 -> "f64"
    [] OTHER -> UndefinedType

\* The host reading a type section body holding one function type:
\* count 1, form 0x60, the parameters' count and codes, the results' count
\* and codes.
DecodeFuncType(body) ==
  IF Len(body) < 3 \/ body[1] # 1 \/ body[2] # 96 THEN Err("CompileError")
  ELSE LET np == DecodeUleb(body, 3)
       IN IF ~np.ok \/ np.next + np.val > Len(body) THEN Err("CompileError")
          ELSE LET params == SubSeq(body, np.next, np.next + np.val - 1)
                   nr == body[np.next + np.val]
                   results == SubSeq(body, np.next + np.val + 1, Len(body))
               IN IF nr \in {0, 1} /\ Len(results) = nr
                     /\ SeqRange(params) \cup SeqRange(results) \subseteq ValueTypeCodes
                    THEN Ok([parameters |-> [k \in 1..Len(params) |-> typeOfCode(params[k])],
                             results |-> [k \in 1..Len(results) |-> typeOfCode(results[k])]])
                    ELSE Err("CompileError")

\* new WebAssembly.Module(u8): the host validates the binary and gives the
\* type of the function it imports and exports, or a CompileError. A host
\* that cannot compile or instantiate at all fails whatever the bytes.
WebAssemblyModule(u8, fault) ==
  IF fault = "host" THEN Err("HostFailure")
  ELSE IF Len(u8) < Len(moduleHeader) + 1
          \/ SubSeq(u8, 1, Len(moduleHeader)) # moduleHeader THEN Err("CompileError")
  ELSE LET size == DecodeUleb(u8, Len(moduleHeader) + 1)
       IN IF ~size.ok \/ size.next + size.val - 1 > Len(u8) THEN Err("CompileError")
          ELSE IF SubSeq(u8, size.next + size.val, Len(u8)) # moduleTrailer
            THEN Err("CompileError")
          ELSE DecodeFuncType(SubSeq(u8, size.next, size.next + size.val - 1))

\* The Uint8Array the fallback path hands to new WebAssembly.Module for
\* sig; none when the call does not get that far.
bytesForModule(sig) ==
  IF WASM2JS \/ hasWebAssemblyFunction \/ sig = Undefined THEN <<>>
  ELSE LET bytes == moduleBytesOf(sig)
       IN IF IsOk(bytes) THEN Uint8Array(bytes.val) ELSE <<>>

\* The fallback path: build the module, compile and instantiate it with
\* func as import e.f, return export f.
convertByModule(func, sig, fault) ==
  IF sig = Undefined THEN Err("TypeError")    \* sig.slice of undefined
  ELSE LET bytes == moduleBytesOf(sig)
       IN IF ~IsOk(bytes) THEN bytes
          ELSE LET module == WebAssemblyModule(Uint8Array(bytes.val), fault)
               IN IF ~IsOk(module) THEN module
                  ELSE Ok(Wrapper(func, module.val))

\* The reflection path: new WebAssembly.Function(sigToWasmTypes(sig), func).
convertByReflection(func, sig) ==
  LET type == sigToWasmTypes(sig)
  IN IF ~IsOk(type) THEN type ELSE NewWebAssemblyFunction(type.val, func)

convertJsFunctionToWasm(func, sig, fault) ==
  IF WASM2JS THEN Ok(func)
  ELSE IF hasWebAssemblyFunction THEN convertByReflection(func, sig)
  ELSE convertByModule(func, sig, fault)

(***************************************************************************)
(* The table, the free list and the registry                               *)
(***************************************************************************)
\* The callables the caller registers.
Funcs == {WasmFunc(1), WasmFunc(2), JsFunc(1)}

\* What a table holds before the first addFunction: wasm functions and nulls.
InitEntries == {Null, WasmFunc(1)}

\* What the environment may do to a call: nothing, fail the table's set for
\* a reason other than the value's type, fail to compile or instantiate.
Faults == {"none", "set", "host"}

\* The sig argument of addFunction (absent, valid, with an invalid tag) and
\* what the environment does to the call: at most one of a bad signature
\* and a fault.
AddArgs ==
  {[sig |-> sig, fault |-> "none"] : sig \in {Undefined, <<"v", "i">>, <<"i", "x">>}}
    \cup {[sig |-> <<"v", "i">>, fault |-> fault] : fault \in Faults}

NoSlot == 0 - 1

EmptyMap == [k \in {} |-> 0]

\* WeakMap.set, .has, .get, .delete
MapSet(map, key, value) ==
  [k \in DOMAIN map \cup {key} |-> IF k = key THEN value ELSE map[k]]

MapHas(map, key) == key \in DOMAIN map

MapDelete(map, key) == [k \in DOMAIN map \ {key} |-> map[k]]

\* wasmTable.length, wasmTable.get(i)
TableLength(table) == Len(table)

getWasmTableEntry(table, i) == table[i + 1]

\* wasmTable.set(i, value): a real table takes null, wasm functions and
\* wrappers and throws a TypeError for a js function; the wasm2js table is
\* a plain array and takes anything.
TableAccepts(value) == WASM2JS \/ value.kind \in {"null", "wasm", "wrapper"}

setWasmTableEntry(table, i, value, fault) ==
  IF fault = "set" THEN Err("Error")
  ELSE IF ~(i >= 0 /\ i < TableLength(table)) THEN Err("RangeError")
  ELSE IF ~TableAccepts(value) THEN Err("TypeError")
  ELSE Ok([table EXCEPT ![i + 1] = value])

\* A grow call that adds two entries.
TableGrowByTwo(table) ==
  IF TableLength(table) + 1 < tableMaximum THEN Ok(table \o <<Null, Null>>)
  ELSE Err("RangeError")

\* wasmTable.grow(1): a RangeError at the capacity ceiling.
TableGrow(table) ==
  IF TableLength(table) < tableMaximum THEN Ok(Append(table, Null))
  ELSE Err("RangeError")

GrowthError == "Unable to grow wasm table. Set ALLOW_TABLE_GROWTH."

\* A catch block that rethrows whatever grow threw.
growthFailureRethrown(err) == Err(err)

\* The catch block of getEmptyTableSlot: a RangeError becomes the growth
\* error, anything else is rethrown.
growthFailure(err) == IF err # "RangeError" THEN Err(err) ELSE Err(GrowthError)

\* An allocator that reads the last free index and leaves it in the list.
popFreeIndexPeek(free) == [ret |-> free[Len(free)], free |-> free]

\* freeTableIndexes.pop()
popFreeIndex(free) == [ret |-> free[Len(free)], free |-> SubSeq(free, 1, Len(free) - 1)]

\* wasmTable.length - 1, after the growth
slotAfterGrowth(table) == TableLength(table) - 1

\* An allocator that grows the table whatever the free list holds.
getEmptyTableSlotGrowFirst(free, table) ==
  LET grown == TableGrow(table)
  IN IF ~IsOk(grown) THEN growthFailure(grown.err)
     ELSE Ok([ret |-> slotAfterGrowth(grown.val), free |-> free, table |-> grown.val])

\* getEmptyTableSlot on the given free list and table: the error, or the
\* slot with the free list and the table it leaves.
getEmptyTableSlot(free, table) ==
  IF Len(free) # 0
    THEN LET popped == popFreeIndex(free)
         IN Ok([ret |-> popped.ret, free |-> popped.free, table |-> table])
  ELSE LET grown == TableGrow(table)
       IN IF ~IsOk(grown) THEN growthFailure(grown.err)
          ELSE Ok([ret |-> slotAfterGrowth(grown.val), free |-> free, table |-> grown.val])

\* updateTableMap(offset, count) on the given map
RECURSIVE updateTableMap(_, _, _, _)
updateTableMap(map, table, offset, count) ==
  IF count <= 0 THEN map
  ELSE LET item == getWasmTableEntry(table, offset)
       IN updateTableMap(IF item # Null THEN MapSet(map, item, offset) ELSE map,
                         table, offset + 1, count - 1)

\* An addFunction that creates the registry without scanning the table.
mapOnEntryUnscanned ==
  IF functionsInTableMap.created THEN functionsInTableMap.map ELSE EmptyMap

\* The registry as addFunction sees it after its first lines: created from
\* the table's entries on first use.
mapOnEntry ==
  IF functionsInTableMap.created THEN functionsInTableMap.map
  ELSE updateTableMap(EmptyMap, wasmTable, 0, TableLength(wasmTable))

\* The ASSERTIONS >= 2 loop: func is an entry of the table.
InTable(table, func) ==
  \E i \in 0..(TableLength(table) - 1) : getWasmTableEntry(table, i) = func

InTableError == "function in Table but not functionsInTableMap"

MissingSignatureError == "Missing signature argument to addFunction"

\* A build whose signature check never fires.
missingSignatureUnchecked(sig) == FALSE

\* #if ASSERTIONS: assert(typeof sig != 'undefined', ...) fails
missingSignature(sig) == ASSERTIONS > 0 /\ sig = Undefined

\* The try/catch of addFunction: the table with func, or its wrapper, at
\* ret; or the error thrown.
\* A catch block that goes on whatever the set threw.
rejectedAnyError(direct) == ~IsOk(direct)

\* The set threw, and if (!(err instanceof TypeError)) throw err lets the
\* catch block go on.
rejectedAsNotCallable(direct) == ~IsOk(direct) /\ direct.err = "TypeError"

\* The catch block's last lines: convertJsFunctionToWasm's error, or the
\* table with the wrapper it made at ret.
placeWrapped(table, ret, wrapped, fault) ==
  IF ~IsOk(wrapped) THEN wrapped
  ELSE setWasmTableEntry(table, ret, wrapped.val, fault)

placeFunction(table, ret, func, sig, fault) ==
  LET direct == setWasmTableEntry(table, ret, func, fault)
  IN IF ~rejectedAsNotCallable(direct) THEN direct
     ELSE IF missingSignature(sig)
       THEN Err(MissingSignatureError)
     ELSE placeWrapped(table, ret, convertJsFunctionToWasm(func, sig, fault), fault)

\* The call reaches convertJsFunctionToWasm(func, sig).
synthesisInvoked(table, ret, func, sig, fault) ==
  /\ rejectedAsNotCallable(setWasmTableEntry(table, ret, func, fault))
  /\ ~missingSignature(sig)

\* An end of addFunction that returns the slot and records nothing.
recordPlacedUnrecorded(map, slot, func, placed) ==
  IF IsOk(placed)
    THEN [result |-> Ok(slot.ret), table |-> placed.val,
          free |-> slot.free, map |-> map]
    ELSE [result |-> placed, table |-> slot.table,
          free |-> slot.free, map |-> map]

\* The end of addFunction, with the slot getEmptyTableSlot gave: the call
\* records func and returns the slot when func was placed, and throws
\* otherwise.
recordPlaced(map, slot, func, placed) ==
  IF IsOk(placed)
    THEN [result |-> Ok(slot.ret), table |-> placed.val,
          free |-> slot.free, map |-> MapSet(map, func, slot.ret)]
    ELSE [result |-> placed, table |-> slot.table,
          free |-> slot.free, map |-> map]

\* addFunction(func, sig): what it returns or throws, and the table, the
\* free list and the registry it leaves.
addFunctionOutcome(func, sig, fault) ==
  LET map == mapOnEntry
      unchanged == [table |-> wasmTable, free |-> freeTableIndexes, map |-> map,
                    synthesized |-> FALSE]
  IN IF MapHas(map, func)
       THEN [result |-> Ok(map[func])] @@ unchanged
     ELSE IF ASSERTIONS >= 2 /\ InTable(wasmTable, func)
       THEN [result |-> Err(InTableError)] @@ unchanged
     ELSE LET slot == getEmptyTableSlot(freeTableIndexes, wasmTable)
          IN IF ~IsOk(slot) THEN [result |-> slot] @@ unchanged
             ELSE recordPlaced(map, slot.val, func,
                               placeFunction(slot.val.table, slot.val.ret, func, sig, fault))
                    @@ [synthesized |->
                          synthesisInvoked(slot.val.table, slot.val.ret, func, sig, fault)]

\* seq without the entries equal to x
RECURSIVE Without(_, _)
Without(seq, x) ==
  IF seq = <<>> THEN <<>>
  ELSE IF Head(seq) = x THEN Without(Tail(seq), x)
  ELSE <<Head(seq)>> \o Without(Tail(seq), x)

\* The state a call started in, kept with the call; handle is the slot the
\* caller held for the call's callable.
Before(handle) ==
  [table |-> wasmTable, free |-> freeTableIndexes,
   created |-> functionsInTableMap.created, map |-> functionsInTableMap.map,
   handle |-> handle, released |-> released]

\* The call's effect on the program's state and on the caller's handles.
addFunctionCall(func, sig, fault) ==
  \E out \in {addFunctionOutcome(func, sig, fault)} :
     /\ wasmTable' = out.table
     /\ freeTableIndexes' = out.free
     /\ functionsInTableMap' = [created |-> TRUE, map |-> out.map]
     /\ handles' = IF IsOk(out.result)
                     THEN [handles EXCEPT ![func] = out.result.val]
                     ELSE handles
     /\ last' = [op |-> "addFunction", func |-> func, sig |-> sig, index |-> NoSlot,
                 result |-> out.result, synthesized |-> out.synthesized,
                 before |-> Before(handles[func])]
     /\ UNCHANGED <<buildVars, tableMaximum, call>>

addFunction(func, sig, fault) ==
  /\ addFunctionCall(func, sig, fault)
  /\ UNCHANGED <<preexisting, released>>

\* addFunction with the caller's record of released slots kept: a slot the
\* call returns is no longer a released one.
addFunctionReleasing(func, sig, fault) ==
  /\ addFunctionCall(func, sig, fault)
  /\ released' = IF IsOk(last'.result)
                   THEN Without(released, last'.result.val)
                   ELSE released
  /\ UNCHANGED preexisting

\* A removal that forgets every recorded callable.
removeFromMapAll(map, table, index) == EmptyMap

\* functionsInTableMap.delete(getWasmTableEntry(index))
removeFromMap(map, table, index) == MapDelete(map, getWasmTableEntry(table, index))

\* The slots the caller holds: returned by addFunction and not given to
\* removeFunction since.
LiveSlots == {handles[f] : f \in Funcs} \ {NoSlot}

removeFunctionCall(index) ==
  /\ index \in LiveSlots
  /\ Len(freeTableIndexes) < MaxFree
  /\ functionsInTableMap' =
       [functionsInTableMap EXCEPT !.map = removeFromMap(@, wasmTable, index)]
  /\ freeTableIndexes' = Append(freeTableIndexes, index)
  /\ handles' = [f \in Funcs |-> IF handles[f] = index THEN NoSlot ELSE handles[f]]
  /\ last' = [op |-> "removeFunction", func |-> Null, sig |-> Undefined, index |-> index,
              result |-> Ok(NoSlot), synthesized |-> FALSE, before |-> Before(NoSlot)]
  /\ UNCHANGED <<buildVars, wasmTable, tableMaximum, call>>

removeFunction(index) ==
  /\ removeFunctionCall(index)
  /\ UNCHANGED <<preexisting, released>>

\* removeFunction with the caller's record kept of the callables the table
\* held from the start: the call unregisters the callables whose handle it
\* is given.
removeFunctionPreexisting(index) ==
  /\ preexisting' = [f \in Funcs |-> IF handles[f] = index /\ preexisting[f] = "held"
                                       THEN "unregistered" ELSE preexisting[f]]
  /\ removeFunctionCall(index)
  /\ UNCHANGED released

\* removeFunction with the caller's record of released slots kept.
removeFunctionReleasing(index) ==
  /\ removeFunctionCall(index)
  /\ released' = Append(released, index)
  /\ UNCHANGED preexisting

(***************************************************************************)
(* The table manager: any build, any table the program starts with, any    *)
(* calls of addFunction and, on slots the caller holds, of removeFunction. *)
(***************************************************************************)
RECURSIVE SeqsUpTo(_, _)
SeqsUpTo(S, n) ==
  IF n = 0 THEN {<<>>}
  ELSE LET shorter == SeqsUpTo(S, n - 1)
       IN shorter \cup {Append(s, x) : s \in shorter, x \in S}

NoCall == [op |-> "none"]

InitBuild ==
  /\ ASSERTIONS \in 0..2
  /\ MEMORY64 \in BOOLEAN
  /\ WASM2JS \in BOOLEAN
  /\ hasWebAssemblyFunction \in BOOLEAN

InitTable ==
  /\ wasmTable \in SeqsUpTo(InitEntries, MaxInitLen)
  /\ tableMaximum \in Len(wasmTable)..MaxTable
  /\ freeTableIndexes = <<>>
  /\ functionsInTableMap = [created |-> FALSE, map |-> EmptyMap]
  /\ handles = [f \in Funcs |-> NoSlot]
  /\ preexisting = [f \in Funcs |-> "absent"]
  /\ released = <<>>
  /\ last = [op |-> "none", func |-> Null, sig |-> Undefined, index |-> NoSlot,
             result |-> Ok(NoSlot), synthesized |-> FALSE, before |-> Before(NoSlot)]

\* The table manager never reads MEMORY64, and a WASM2JS build never asks
\* for WebAssembly.Function.
Init ==
  /\ InitBuild
  /\ MEMORY64 = FALSE
  /\ ~(WASM2JS /\ hasWebAssemblyFunction)
  /\ InitTable
  /\ call = NoCall

Next ==
  \/ \E func \in Funcs, args \in AddArgs : addFunction(func, args.sig, args.fault)
  \/ \E index \in 0..(MaxTable - 1) : removeFunction(index)

Spec == Init /\ [][Next]_vars

(***************************************************************************)
(* The table manager with the order of the caller's releases recorded.     *)
(***************************************************************************)
NextReleasing ==
  \/ \E func \in Funcs, args \in AddArgs :
       addFunctionReleasing(func, args.sig, args.fault)
  \/ \E index \in 0..(MaxTable - 1) : removeFunctionReleasing(index)

SpecReleasing == Init /\ [][NextReleasing]_vars

(***************************************************************************)
(* The table manager on a table that holds a callable when the program     *)
(* starts, with the caller's unregistrations of such callables recorded.   *)
(***************************************************************************)
InitPreexisting ==
  /\ InitBuild
  /\ MEMORY64 = FALSE
  /\ ~(WASM2JS /\ hasWebAssemblyFunction)
  /\ wasmTable \in SeqsUpTo(InitEntries, MaxInitLen)
  /\ \E f \in Funcs : InTable(wasmTable, f)
  /\ tableMaximum \in Len(wasmTable)..MaxTable
  /\ freeTableIndexes = <<>>
  /\ functionsInTableMap = [created |-> FALSE, map |-> EmptyMap]
  /\ handles = [f \in Funcs |-> NoSlot]
  /\ preexisting = [f \in Funcs |-> IF InTable(wasmTable, f) THEN "held" ELSE "absent"]
  /\ released = <<>>
  /\ last = [op |-> "none", func |-> Null, sig |-> Undefined, index |-> NoSlot,
             result |-> Ok(NoSlot), synthesized |-> FALSE, before |-> Before(NoSlot)]
  /\ call = NoCall

NextPreexisting ==
  \/ \E func \in Funcs, args \in AddArgs : addFunction(func, args.sig, args.fault)
  \/ \E index \in 0..(MaxTable - 1) : removeFunctionPreexisting(index)

SpecPreexisting == InitPreexisting /\ [][NextPreexisting]_vars

(***************************************************************************)
(* The helpers on their own: one call of uleb128Encode, of sigToWasmTypes  *)
(* or of convertJsFunctionToWasm, on any input within the bounds.          *)
(***************************************************************************)
SigChars == {"v", "i", "j", "f", "d", "p", "x"}

Sigs == SeqsUpTo(SigChars, MaxSigLen)

Pending == Err("pending")

UlebCalls ==
  [op : {"uleb128Encode"}, n : 0..(ULEB_LIMIT - 1 + MaxOver),
   target : SeqsUpTo({200}, MaxTargetLen), result : {Pending}]

SigCalls == [op : {"sigToWasmTypes"}, sig : Sigs \cup {Undefined}, result : {Pending}]

ConvertCalls ==
  [op : {"convertJsFunctionToWasm"}, func : {JsFunc(1)}, sig : Sigs \cup {Undefined},
   fault : {"none", "host"}, bytes : {<<>>}, result : {Pending}]

InitCodec ==
  /\ wasmTable = <<>>
  /\ tableMaximum = 0
  /\ freeTableIndexes = <<>>
  /\ functionsInTableMap = [created |-> FALSE, map |-> EmptyMap]
  /\ handles = [f \in Funcs |-> NoSlot]
  /\ preexisting = [f \in Funcs |-> "absent"]
  /\ released = <<>>
  /\ last = [op |-> "none", func |-> Null, sig |-> Undefined, index |-> NoSlot,
             result |-> Ok(NoSlot), synthesized |-> FALSE, before |-> Before(NoSlot)]
  /\ ASSERTIONS \in 0..2
  /\ \/ /\ call \in UlebCalls
        /\ MEMORY64 = FALSE /\ WASM2JS = FALSE /\ hasWebAssemblyFunction = FALSE
     \/ /\ call \in SigCalls
        /\ MEMORY64 \in BOOLEAN
        /\ WASM2JS = FALSE /\ hasWebAssemblyFunction = FALSE
     \/ /\ call \in ConvertCalls
        /\ MEMORY64 \in BOOLEAN
        /\ WASM2JS \in BOOLEAN
        /\ hasWebAssemblyFunction \in BOOLEAN

CallUleb128Encode ==
  /\ call.op = "uleb128Encode" /\ call.result = Pending
  /\ call' = [call EXCEPT !.result = uleb128Encode(call.n, call.target)]
  /\ UNCHANGED <<buildVars, tableVars>>

CallSigToWasmTypes ==
  /\ call.op = "sigToWasmTypes" /\ call.result = Pending
  /\ call' = [call EXCEPT !.result = sigToWasmTypes(call.sig)]
  /\ UNCHANGED <<buildVars, tableVars>>

CallConvertJsFunctionToWasm ==
  /\ call.op = "convertJsFunctionToWasm" /\ call.result = Pending
  /\ call' = [call EXCEPT !.result =
                 convertJsFunctionToWasm(call.func, call.sig, call.fault),
                           !.bytes = bytesForModule(call.sig)]
  /\ UNCHANGED <<buildVars, tableVars>>

NextCodec == CallUleb128Encode \/ CallSigToWasmTypes \/ CallConvertJsFunctionToWasm

SpecCodec == InitCodec /\ [][NextCodec]_vars

(***************************************************************************)
(* Vocabulary of the properties below. `last` holds the call that led to   *)
(* the state and the state it started in.                                  *)
(***************************************************************************)
Added == last.op = "addFunction"

Removed == last.op = "removeFunction"

Returned == IsOk(last.result)

Threw(e) == last.result.err = e

\* The registry's entries before the call: none until it is created.
RegistryBefore == IF last.before.created THEN last.before.map ELSE EmptyMap

\* The registry the call looked func up in: the one it found, or the one
\* its first lines created from the table.
RegistryAtLookup ==
  IF last.before.created THEN last.before.map
  ELSE updateTableMap(EmptyMap, last.before.table, 0, TableLength(last.before.table))

\* The call found its callable unrecorded.
AddedUnrecorded == Added /\ ~MapHas(RegistryAtLookup, last.func)

\* The call went on to getEmptyTableSlot: nothing stopped it before.
AddedAllocating == AddedUnrecorded /\ ~Threw(InTableError)

\* The call got a slot: from the free list, or by growing the table.
AddedWithSlot == AddedAllocating /\ ~Threw(GrowthError)

Live(f) == handles[f] # NoSlot

Slots(map) == {map[k] : k \in DOMAIN map}

\* C1: two different callables that are both registered (each holds a slot
\* that addFunction returned for it and that was not given to removeFunction
\* since) never hold the same slot.
C1_LiveSlotsDistinct ==
  \A f, g \in Funcs : (f # g /\ Live(f) /\ Live(g)) => handles[f] # handles[g]

\* C2: addFunction of a callable that is registered returns the slot it
\* holds and changes neither the table, the free list nor the registry.
C2_RepeatRegisterIsNoOp ==
  (Added /\ last.before.handle # NoSlot) =>
    /\ Returned
    /\ last.result.val = last.before.handle
    /\ wasmTable = last.before.table
    /\ freeTableIndexes = last.before.free
    /\ last.before.created
    /\ functionsInTableMap.map = last.before.map

\* C3: after removeFunction(slot) the registry holds no entry whose slot is
\* slot, and slot is in the free list.
C3_RemovedSlotUnrecordedAndFree ==
  Removed =>
    /\ last.index \notin Slots(functionsInTableMap.map)
    /\ last.index \in SeqRange(freeTableIndexes)

\* C4: an addFunction that throws after it got a slot leaves the free list,
\* the registry and the table's length as they were.
C4_FailedRegisterChangesNothing ==
  (AddedWithSlot /\ ~Returned) =>
    /\ freeTableIndexes = last.before.free
    /\ functionsInTableMap.map = RegistryAtLookup
    /\ TableLength(wasmTable) = TableLength(last.before.table)

\* seq without its k-th element
RemoveAt(seq, k) == [i \in 1..(Len(seq) - 1) |-> IF i < k THEN seq[i] ELSE seq[i + 1]]

\* C5: with a free index at hand, addFunction of an unrecorded callable
\* takes its slot from the free list (the list loses that index, the table
\* does not grow, the slot is what a successful call returns); and a slot
\* got by growth lies above every slot another callable holds, so that from
\* an empty table f1 and f2 get increasing slots and, f1's slot released,
\* f3 gets f1's former slot.
C5_ReuseBeforeGrowth ==
  /\ (AddedAllocating /\ last.before.free # <<>>) =>
       \E k \in 1..Len(last.before.free) :
         /\ freeTableIndexes = RemoveAt(last.before.free, k)
         /\ TableLength(wasmTable) = TableLength(last.before.table)
         /\ Returned => last.result.val = last.before.free[k]
  /\ (AddedAllocating /\ last.before.free = <<>> /\ Returned) =>
       \A g \in Funcs \ {last.func} : Live(g) => handles[g] < last.result.val

\* f3 registered into the slot 0 that was released, in a table of two
\* entries whose slot 1 another callable holds.
C5_Witness ==
  /\ AddedAllocating /\ Returned
  /\ last.before.free = <<0>>
  /\ last.result.val = 0
  /\ freeTableIndexes = <<>>
  /\ TableLength(wasmTable) = 2
  /\ ~InTable(last.before.table, last.func)
  /\ getWasmTableEntry(last.before.table, 0) \in Funcs \ {last.func}
  /\ \E g \in Funcs \ {last.func} : handles[g] = 1

\* C6: with no free index and a table that can grow, addFunction of an
\* unrecorded callable grows the table by exactly one entry, keeps the
\* entries it had, and returns the length before the growth.
C6_GrowByOne ==
  (AddedAllocating /\ last.before.free = <<>>
     /\ TableLength(last.before.table) < tableMaximum) =>
    /\ TableLength(wasmTable) = TableLength(last.before.table) + 1
    /\ \A i \in 0..(TableLength(last.before.table) - 1) :
         getWasmTableEntry(wasmTable, i) = getWasmTableEntry(last.before.table, i)
    /\ Returned => last.result.val = TableLength(last.before.table)

\* A table of one entry grown to two by a successful addFunction.
C6_Witness ==
  /\ AddedAllocating /\ Returned
  /\ last.before.free = <<>>
  /\ TableLength(last.before.table) = 1
  /\ TableLength(wasmTable) = 2
  /\ last.result.val = 1

\* The call found no free index and a table at its capacity ceiling.
AddedExhausted ==
  /\ AddedUnrecorded
  /\ last.before.free = <<>>
  /\ TableLength(last.before.table) = tableMaximum

\* C7 as stated: in every such state the call throws the growth error and
\* leaves the free list, the registry and the table exactly as they were.
C7_AsStated ==
  AddedExhausted =>
    /\ Threw(GrowthError)
    /\ freeTableIndexes = last.before.free
    /\ functionsInTableMap.map = RegistryBefore
    /\ wasmTable = last.before.table

\* C7 amended: the call throws: the growth error, or, in an ASSERTIONS >= 2
\* build whose table still holds the callable, the failure of the table
\* check that comes first; the free list and the table are as they were,
\* and so is the registry but for its creation from the table's entries in
\* the first addFunction call.
C7_ExhaustedFailsClean ==
  AddedExhausted =>
    /\ IF ASSERTIONS >= 2 /\ InTable(last.before.table, last.func)
         THEN Threw(InTableError)
         ELSE Threw(GrowthError)
    /\ freeTableIndexes = last.before.free
    /\ functionsInTableMap.map = RegistryAtLookup
    /\ wasmTable = last.before.table

\* The growth error thrown by a call that was not the first, on a full
\* table with entries.
C7_Witness ==
  /\ AddedExhausted
  /\ Threw(GrowthError)
  /\ last.before.created
  /\ TableLength(wasmTable) >= 1
  /\ functionsInTableMap.map # EmptyMap

\* The call had a slot and the table rejected its callable as not natively
\* callable, and no signature was given.
AddedRejectedNoSig ==
  /\ AddedWithSlot
  /\ ~TableAccepts(last.func)
  /\ last.sig = Undefined

\* C8 as stated: in every build that call throws the missing-signature
\* error and does not record the callable.
C8_AsStated ==
  AddedRejectedNoSig =>
    /\ Threw(MissingSignatureError)
    /\ ~MapHas(functionsInTableMap.map, last.func)

\* C8 amended: that call throws in every build and does not record the
\* callable; what it throws is the missing-signature error in a build with
\* ASSERTIONS, and in a build without, the TypeError of reading the absent
\* signature.
C8_MissingSignatureFails ==
  AddedRejectedNoSig =>
    /\ IF ASSERTIONS > 0 THEN Threw(MissingSignatureError) ELSE Threw("TypeError")
    /\ ~MapHas(functionsInTableMap.map, last.func)

\* The missing-signature error of an ASSERTIONS build.
C8_Witness ==
  /\ AddedRejectedNoSig
  /\ ASSERTIONS > 0
  /\ Threw(MissingSignatureError)

\* The unsigned LEB128 encoding of n: 7 bits a byte, least-significant
\* group first, bit 7 set on every byte but the last.
RECURSIVE Leb128(_)
Leb128(n) == IF n < 128 THEN <<n>> ELSE <<(n % 128) + 128>> \o Leb128(n \div 128)

Encoded == call.op = "uleb128Encode" /\ call.result # Pending

\* C9: for 0 <= n < 2^14, uleb128Encode(n, target) leaves target followed by
\* the unsigned LEB128 encoding of n, of one byte for n < 128 and of two
\* otherwise, and reading the bytes appended gives n.
C9_Uleb128Encodes ==
  (Encoded /\ call.n < ULEB_LIMIT) =>
    /\ IsOk(call.result)
    /\ call.result.val = call.target \o Leb128(call.n)
    /\ Len(call.result.val) = Len(call.target) + (IF call.n < 128 THEN 1 ELSE 2)
    /\ Slice(call.result.val, 0, Len(call.target)) = call.target
    /\ LET read == DecodeUleb(call.result.val, Len(call.target) + 1)
       IN read.ok /\ read.val = call.n /\ read.next = Len(call.result.val) + 1

\* 16383 appended as FF 7F to a target that held a byte.
C9_Witness ==
  /\ Encoded
  /\ call.n = 16383
  /\ call.target = <<200>>
  /\ call.result = Ok(<<200, 255, 127>>)

\* The wire type of a tag.
WireType(c) ==
  CASE c = "i" -> "i32"
    [] c = "j" -> "i64"
    [] c = "f" -> "f32"
    [] c = "d" -> "f64"
    [] c = "p" -> IF MEMORY64 THEN "i64" ELSE "i32"

ParamTags == {"i", "j", "f", "d", "p"}

\* A signature of defined tags only: a result tag or the void sentinel,
\* then parameter tags.
ValidSig(sig) ==
  /\ sig # Undefined
  /\ Len(sig) >= 1
  /\ sig[1] \in ParamTags \cup {"v"}
  /\ \A k \in 2..Len(sig) : sig[k] \in ParamTags

Translated == call.op = "sigToWasmTypes" /\ call.result # Pending

\* C10: for a signature of defined tags sigToWasmTypes returns the
\* parameters in order, each tag's wire type, and results that are empty if
\* and only if the first character is 'v' and otherwise hold the one wire
\* type of the first character.
C10_SigToWasmTypesOnValid ==
  (Translated /\ ValidSig(call.sig)) =>
    /\ IsOk(call.result)
    /\ call.result.val.parameters =
         [k \in 1..(Len(call.sig) - 1) |-> WireType(call.sig[k + 1])]
    /\ (call.result.val.results = <<>>) <=> (call.sig[1] = "v")
    /\ call.sig[1] # "v" => call.result.val.results = <<WireType(call.sig[1])>>

\* 'ifd' translated to parameters f32, f64 and result i32.
C10_Witness ==
  /\ Translated
  /\ call.sig = <<"i", "f", "d">>
  /\ call.result = Ok([parameters |-> <<"f32", "f64">>, results |-> <<"i32">>])

\* A signature with a character outside the defined tags: in the result
\* position anything but a tag or the void sentinel, in a parameter
\* position anything but a tag.
InvalidSig(sig) ==
  /\ sig # Undefined
  /\ \/ Len(sig) >= 1 /\ sig[1] \notin ParamTags \cup {"v"}
     \/ \E k \in 2..Len(sig) : sig[k] \notin ParamTags

\* C11: for a signature with a character outside the defined tags, in the
\* result position or in a parameter position, sigToWasmTypes signals an
\* error and returns no type description.
C11_InvalidSigSignalsError ==
  (Translated /\ InvalidSig(call.sig)) => ~IsOk(call.result)

Converted == call.op = "convertJsFunctionToWasm" /\ call.result # Pending

\* The call took the fallback path: no wasm2js build, no WebAssembly.Function.
ConvertedByModule == Converted /\ ~WASM2JS /\ ~hasWebAssemblyFunction

\* The type code of a wire type: 0x7F, 0x7E, 0x7D, 0x7C.
CodeOfType(t) ==
  CASE t = "i32" -> 127
    [] t = "i64" -> 126
    [] t = "f32" -> 125
    [] t = "f64" -> 124

MagicAndVersion == <<0, 97, 115, 109, 1, 0, 0, 0>>

ImportSection == <<2, 7, 1, 1, 101, 1, 102, 0, 0>>

ExportSection == <<7, 5, 1, 1, 102, 0, 0>>

\* The type section body of a valid signature: count 01, form 60, the
\* parameter count, a type code per parameter, then 00 or 01 and the
\* result's type code.
TypeSectionBody(sig) ==
  <<1, 96>> \o Leb128(Len(sig) - 1)
    \o [k \in 1..(Len(sig) - 1) |-> CodeOfType(WireType(sig[k + 1]))]
    \o (IF sig[1] = "v" THEN <<0>> ELSE <<1, CodeOfType(WireType(sig[1]))>>)

\* C12: for a valid signature the fallback path builds magic, version,
\* section code 01, the ULEB128 length of the type section body, the body,
\* then the fixed import and export sections: the length prefix is the
\* body's length and the bytes around the type section are the same for
\* every signature.
C12_ModuleBytes ==
  (ConvertedByModule /\ ValidSig(call.sig)) =>
    call.bytes = MagicAndVersion \o <<1>> \o Leb128(Len(TypeSectionBody(call.sig)))
                   \o TypeSectionBody(call.sig) \o ImportSection \o ExportSection

\* The module built for 'vii'.
C12_Witness ==
  /\ ConvertedByModule
  /\ call.sig = <<"v", "i", "i">>
  /\ call.bytes = <<0, 97, 115, 109, 1, 0, 0, 0, 1, 6, 1, 96, 2, 127, 127, 0,
                    2, 7, 1, 1, 101, 1, 102, 0, 0, 7, 5, 1, 1, 102, 0, 0>>

InvalidSignatureError == "invalid signature char"

\* The value-type bytes of the type section of a module built by the
\* fallback path: the parameters' codes and, after a result count of 01,
\* the result's code.
TypeSectionCodes(bytes) ==
  LET size == DecodeUleb(bytes, Len(MagicAndVersion) + 2)
      body == SubSeq(bytes, size.next, size.next + size.val - 1)
      np == DecodeUleb(body, 3)
      params == SubSeq(body, np.next, np.next + np.val - 1)
      results == SubSeq(body, np.next + np.val + 1, Len(body))
  IN SeqRange(params) \cup SeqRange(results)

\* C13: given a signature with an invalid tag, in the result position or a
\* parameter position, the fallback path fails with the invalid-signature
\* error, and hands the host no module whose type section holds a byte
\* that is not one of the four type codes.
C13_InvalidTagFails ==
  (ConvertedByModule /\ InvalidSig(call.sig)) =>
    /\ call.result = Err(InvalidSignatureError)
    /\ call.bytes # <<>> => TypeSectionCodes(call.bytes) \subseteq {127, 126, 125, 124}

\* C14: when addFunction finds its callable unrecorded and goes on to
\* allocate a slot, no entry of the table holds that callable: the
\* ASSERTIONS >= 2 check never fails.
C14_UnrecordedNotInTable ==
  AddedUnrecorded =>
    /\ ~InTable(last.before.table, last.func)
    /\ ~Threw(InTableError)

\* C15: removeFunction(index) leaves every table entry, the one at index
\* included, and the table length as they were; it appends index to the
\* free list and takes at most one entry out of the registry, changing
\* none of the others.
C15_RemoveFrame ==
  Removed =>
    /\ wasmTable = last.before.table
    /\ freeTableIndexes = Append(last.before.free, last.index)
    /\ functionsInTableMap.created = last.before.created
    /\ DOMAIN functionsInTableMap.map \subseteq DOMAIN last.before.map
    /\ \A k \in DOMAIN functionsInTableMap.map :
         functionsInTableMap.map[k] = last.before.map[k]
    /\ Cardinality(DOMAIN last.before.map \ DOMAIN functionsInTableMap.map) <= 1

\* A removal that took the slot's callable out of the registry, with
\* another callable recorded, and left the callable in the table.
C15_Witness ==
  /\ Removed
  /\ getWasmTableEntry(wasmTable, last.index) # Null
  /\ MapHas(last.before.map, getWasmTableEntry(wasmTable, last.index))
  /\ ~MapHas(functionsInTableMap.map, getWasmTableEntry(wasmTable, last.index))
  /\ functionsInTableMap.map # EmptyMap

\* The indexes at which table holds entry, counted from 0.
IndexesOf(table, entry) == {i \in 0..(Len(table) - 1) : table[i + 1] = entry}

\* What a scan of table from index 0 to its length records: each non-null
\* entry with its index, the last index for an entry held more than once.
Scanned(table) ==
  [e \in {table[k] : k \in 1..Len(table)} \ {Null} |->
     CHOOSE i \in IndexesOf(table, e) : \A j \in IndexesOf(table, e) : j <= i]

\* The call was the first addFunction: it found no registry.
AddedFirst == Added /\ ~last.before.created

\* Only the first addFunction call scans: it records the table's non-null
\* entries, each with its index, and a later call records nothing but its
\* own callable.
OnlyFirstCallScans ==
  /\ AddedFirst =>
       /\ DOMAIN functionsInTableMap.map \subseteq
            DOMAIN Scanned(last.before.table) \cup {last.func}
       /\ \A k \in DOMAIN Scanned(last.before.table) \ {last.func} :
            /\ MapHas(functionsInTableMap.map, k)
            /\ functionsInTableMap.map[k] = Scanned(last.before.table)[k]
  /\ (Added /\ ~AddedFirst) =>
       \A k \in DOMAIN functionsInTableMap.map \ {last.func} :
         /\ MapHas(last.before.map, k)
         /\ functionsInTableMap.map[k] = last.before.map[k]

\* The call returned an index at which the table holds its callable, and
\* neither grew the table, nor took from the free list, nor wrote to the
\* table, nor recorded anything but what the scan records.
ReturnedInPlace ==
  /\ Returned
  /\ last.result.val \in IndexesOf(last.before.table, last.func)
  /\ wasmTable = last.before.table
  /\ freeTableIndexes = last.before.free
  /\ functionsInTableMap.map =
       (IF AddedFirst THEN Scanned(last.before.table) ELSE last.before.map)

\* C16 as stated: the first addFunction call, and only the first, scans the
\* table and records every non-null entry with its index; so any
\* addFunction of a callable that was an entry of the table before the
\* first addFunction returns an index at which the table holds it, without
\* growing the table, taking from the free list or writing to the table.
C16_AsStated ==
  /\ OnlyFirstCallScans
  /\ (Added /\ preexisting[last.func] # "absent") => ReturnedInPlace

\* C16: the first addFunction call, and only the first, scans the table and
\* records every non-null entry with its index; so any addFunction, the
\* first or a later one, of a callable that was an entry of the table
\* before the first addFunction and has not been unregistered since
\* returns an index at which the table holds it, without growing the
\* table, taking from the free list or writing to the table.
C16_FirstCallScans ==
  /\ OnlyFirstCallScans
  /\ (Added /\ preexisting[last.func] = "held") => ReturnedInPlace

\* A call later than the first, given a callable the table held from the
\* start and the caller never registered, returns the index the first
\* call's scan recorded.
C16_Witness ==
  /\ Added /\ ~AddedFirst
  /\ last.func = WasmFunc(1)
  /\ preexisting[WasmFunc(1)] = "held"
  /\ last.before.handle = NoSlot
  /\ last.result = Ok(1)
  /\ last.before.table[1] = WasmFunc(1)
  /\ last.before.table[2] = WasmFunc(1)

\* C17: addFunction calls convertJsFunctionToWasm only when the table
\* rejects the callable itself as not callable: a callable the table
\* accepts is stored as itself with no synthesis, and a set that fails for
\* another reason reaches the caller with no synthesis and without the
\* callable recorded.
C17_SynthesisOnlyOnRejection ==
  /\ last.synthesized => (AddedWithSlot /\ ~TableAccepts(last.func))
  /\ (AddedWithSlot /\ TableAccepts(last.func) /\ Returned) =>
       getWasmTableEntry(wasmTable, last.result.val) = last.func
  /\ (Added /\ Threw("Error")) =>
       /\ ~last.synthesized
       /\ ~MapHas(functionsInTableMap.map, last.func)

\* A js function the table rejected, placed as the wrapper made for it.
C17_Witness ==
  /\ Added /\ Returned /\ last.synthesized
  /\ last.func = JsFunc(1)
  /\ getWasmTableEntry(wasmTable, last.result.val).kind = "wrapper"

\* The wire type a type code denotes.
TypeOfCode(b) ==
  CASE b = 127 -> "i32"
    [] b = 126 -> "i64"
    [] b = 125 -> "f32"
    [] b = 124 -> "f64"
    [] OTHER -> "none"

\* C18: in each address-width configuration and for each tag i, j, f, d, p,
\* the wire type sigToWasmTypes gives the tag and the type code the
\* fallback path gives it denote the same type; 'p' is i64 with 0x7E in a
\* MEMORY64 build and i32 with 0x7F otherwise. So the wrapper the fallback
\* path makes for a valid signature has the type sigToWasmTypes gives it.
C18_TagTablesAgree ==
  /\ \A c \in ParamTags :
       /\ typeNames(c) \in {"i32", "i64", "f32", "f64"}
       /\ TypeOfCode(typeCodes(c)) = typeNames(c)
  /\ typeNames("p") = (IF MEMORY64 THEN "i64" ELSE "i32")
  /\ typeCodes("p") = (IF MEMORY64 THEN 126 ELSE 127)
  /\ (ConvertedByModule /\ ValidSig(call.sig) /\ call.fault = "none") =>
       /\ IsOk(call.result)
       /\ Ok(call.result.val.type) = sigToWasmTypes(call.sig)

\* A MEMORY64 build's wrapper for 'pp': an i64 parameter, an i64 result.
C18_Witness ==
  /\ ConvertedByModule
  /\ MEMORY64
  /\ call.sig = <<"p", "p">>
  /\ call.result = Ok(Wrapper(call.func, [parameters |-> <<"i64">>, results |-> <<"i64">>]))

\* C19: no call makes the table shorter, a call makes it at most one entry
\* longer, and only an addFunction call that found its callable unrecorded
\* and the free list empty makes it longer.
C19_TableLengthMonotone ==
  /\ TableLength(wasmTable) >= TableLength(last.before.table)
  /\ TableLength(wasmTable) <= TableLength(last.before.table) + 1
  /\ TableLength(wasmTable) > TableLength(last.before.table) =>
       /\ AddedUnrecorded
       /\ last.before.free = <<>>

\* A table that already held entries, grown by a call later than the first.
C19_Witness ==
  /\ Added /\ last.before.created
  /\ TableLength(last.before.table) >= 1
  /\ TableLength(wasmTable) = TableLength(last.before.table) + 1

\* C20: the free list and the registry are disjoint: no index in the free
\* list is the slot recorded for a callable.
C20_FreeListRegistryDisjoint ==
  SeqRange(freeTableIndexes) \cap Slots(functionsInTableMap.map) = {}

\* The wasm type of a valid signature.
TypeOfSig(sig) ==
  [parameters |-> [k \in 1..(Len(sig) - 1) |-> WireType(sig[k + 1])],
   results |-> IF sig[1] = "v" THEN <<>> ELSE <<WireType(sig[1])>>]

\* C21: right after an addFunction call that allocated a slot and returned,
\* the slot returned is below the table length, the table holds at that
\* slot the callable itself if the table accepts it and otherwise the
\* wrapper synthesized for it, and the registry maps the callable to the
\* slot.
C21_RegisteredState ==
  (AddedWithSlot /\ Returned) =>
    /\ last.result.val >= 0
    /\ last.result.val < TableLength(wasmTable)
    /\ TableAccepts(last.func) =>
         getWasmTableEntry(wasmTable, last.result.val) = last.func
    /\ ~TableAccepts(last.func) =>
         /\ last.synthesized
         /\ ValidSig(last.sig)
         /\ getWasmTableEntry(wasmTable, last.result.val)
              = [kind |-> "wrapper", id |-> last.func.id, type |-> TypeOfSig(last.sig)]
    /\ MapHas(functionsInTableMap.map, last.func)
    /\ functionsInTableMap.map[last.func] = last.result.val

\* A js function registered at slot 1 of a table grown for it, as its
\* wrapper, next to a wasm function placed as itself.
C21_Witness ==
  /\ AddedWithSlot /\ Returned
  /\ last.func = JsFunc(1)
  /\ last.result.val = 1
  /\ wasmTable[1] = WasmFunc(1)
  /\ wasmTable[2].kind = "wrapper"
  /\ functionsInTableMap.map[JsFunc(1)] = 1

\* C22: released slots are reused last-released-first: when several slots
\* have been unregistered and none of them returned by addFunction since,
\* the next addFunction of an unrecorded callable that returns, returns the
\* slot unregistered most recently.
C22_LastReleasedFirst ==
  (AddedUnrecorded /\ Returned /\ Len(last.before.released) >= 2) =>
    last.result.val = last.before.released[Len(last.before.released)]

====
